---- MODULE Spec2Model ----
(***************************************************************************)
(* nsq.Writer (src/nsq/writer.py): the publisher-side connection pool.     *)
(*                                                                         *)
(* The Writer keeps a dict `conns` of ready connections keyed by           *)
(* connection id, dispatches PUB/MPUB commands to a randomly chosen pool   *)
(* member, tracks one FIFO callback_queue per connection and schedules a   *)
(* reconnect 15 s after every close event.  Everything runs on one IOLoop  *)
(* thread, so every handler is one atomic action here.                     *)
(*                                                                         *)
(* The connection object (nsq.AsyncConn, async.py) is a collaborator whose *)
(* code is not part of the modelled sources: its lifecycle (at most one    *)
(* ready, then frames, then exactly one close) is modelled from the        *)
(* specification's collaborator interface.                                 *)
(***************************************************************************)
EXTENDS Integers, Sequences, FiniteSets, TLC

\* ---------------------------------------------------------------- bounds
\* Number of AsyncConn objects that are ever connected.
MaxConns == 3
\* Number of _pub calls (top-level and nested) in one behaviour.
MaxPubs == 2
\* Seconds of wall-clock time that pass in one Tick.
TickStep == 8

\* ------------------------------------------------------------- constants
\* time.time() + 15 in _on_connection_close.
ReconnectDelay == 15

\* The nsqd instances a Writer can be configured with: (host, port).
Endpoints == {<<"A", 4150>>, <<"B", 4150>>}

\* The configurations explored: one endpoint, two endpoints, and one
\* endpoint listed twice.
Configs ==
    { << <<"A", 4150>> >>,
      << <<"A", 4150>>, <<"B", 4150>> >>,
      << <<"A", 4150>>, <<"A", 4150>> >> }

\* AsyncConn.id: the identity of a connection is derived from host and port.
ConnId(host, port) == <<host, port>>

Conns == 1..MaxConns
Pubs == 1..MaxPubs

\* What the callback given to pub/mpub does when it is invoked:
\*   "default"     callback omitted: functools.partial(self._finish_pub, ...)
\*   "returns"     a caller callback that returns normally
\*   "raises"      a caller callback that raises an exception
\*   "republishes" the docstring's finish_pub: on an Error it calls
\*                 self.nsq.pub(topic, msg) again, without a callback
CallbackKinds == {"default", "returns", "raises", "republishes"}

Commands == {"pub", "mpub"}

\* The data a callback can be invoked with:
\*   "response"  payload of a response frame
\*   "error"     payload of an error frame (an nsq.Error)
\*   "closed"    nsq.ConnectionClosedError()
\*   "noconn"    nsq.SendError('no connections')
Results == {"response", "error", "closed", "noconn"}

\* isinstance(data, nsq.Error)
IsError(data) == data \in {"error", "closed", "noconn"}

\* None, as the conn argument of a callback and as an absent dict entry.
None == 0

VARIABLES
    nsqd_tcp_addresses, \* self.nsqd_tcp_addresses: Seq(Endpoints)
    started,            \* whether the IOLoop has run self._run
    conns,              \* self.conns: conn.id -> connection (None: no entry)
    nconn,              \* number of AsyncConn objects connected so far
    cid,                \* cid[c]: conn.id of connection c
    cstate,             \* lifecycle position of connection c: "unborn",
                        \*   "connecting", "open", "closing" (close() was
                        \*   called, the close event is due), "closed"
    ready,              \* what c's ready event did: "none" (not emitted),
                        \*   "registered" or "rejected"
    callback_queue,     \* conn.callback_queue of connection c
    timers,             \* pending IOLoop timeouts: Seq of [id, remaining,
                        \*   conn]: the (host, port) bound in the
                        \*   reconnect_callback, the seconds until it is due
                        \*   and the connection whose close created it
    npub,               \* number of _pub calls so far
    pubs,               \* pubs[p]: the callback kind of publish p, the
                        \*   connection chosen for it, whether send raised,
                        \*   the publish whose callback made the call (None
                        \*   when the caller of the Writer made it)
    sent,               \* sent[c]: the publishes handed to c.send, in order
    calls,              \* calls[c]: the invocations callback(c, data), in
                        \*   order; calls[None] are those with conn = None
    uncaught,           \* the publishes whose callback raised an exception
                        \*   that left the handler that invoked it
    removed             \* removed[c]: the connections whose close handling
                        \*   deleted c's entry from self.conns, in order

vars == <<nsqd_tcp_addresses, started, conns, nconn, cid, cstate, ready,
          callback_queue, timers, npub, pubs, sent, calls, uncaught, removed>>

\* The part of the state that _pub and the callbacks it runs can change;
\* exc: an exception is propagating, over: MaxPubs would be exceeded.
Store ==
    [ q |-> callback_queue, cs |-> cstate, sent |-> sent, npub |-> npub,
      pubs |-> pubs, calls |-> calls, exc |-> FALSE, over |-> FALSE ]

\* self.conns.values()
Members(pool) == { pool[e] : e \in {x \in Endpoints : pool[x] # None} }

\* A _pub that chooses among all connection objects that were connected,
\* pool members or not.
ChoicesAmongAll(pool) ==
    IF Members(pool) = {}
    THEN { [conn |-> None, fail |-> FALSE] }
    ELSE [conn : {c \in 1..MaxConns : cstate[c] # "unborn"}, fail : BOOLEAN]

\* What random.choice and conn.send can do in one _pub call.
Choices(pool) ==
    IF Members(pool) = {}
    THEN { [conn |-> None, fail |-> FALSE] }
    ELSE [conn : Members(pool), fail : BOOLEAN]

\* ------------------------------------------------------- CallbackQueue
\* conn.callback_queue.insert(0, callback)
EnqueueFront(queue, p) == <<p>> \o queue

\* conn.callback_queue.append(callback)
Enqueue(queue, p) == Append(queue, p)

\* the callback that conn.callback_queue.pop(0) returns
Oldest(queue) == Head(queue)

\* A handler that reads queue[0] and leaves it in the list.
PopOldestKeeps(queue) == queue

\* A handler that takes two callbacks off the list for one frame.
PopOldestTwo(queue) == IF Len(queue) > 1 THEN Tail(Tail(queue)) ELSE Tail(queue)

\* conn.callback_queue after pop(0)
PopOldest(queue) == Tail(queue)

\* ------------------------------------------------------ _pub, callbacks
\* _finish_pub(conn, data, command, topic, msg): logs conn.id when data is
\* an Error, which raises AttributeError when conn is None.
FinishPub(st, c, data) ==
    IF IsError(data) /\ c = None THEN [st EXCEPT !.exc = TRUE] ELSE st

\* A _pub without the try/except around conn.send: the exception leaves
\* _pub and the connection is not closed.
SendOnUncaught(st, c, p, fail) ==
    IF fail THEN [st EXCEPT !.pubs[p].fail = TRUE, !.exc = TRUE] ELSE st

\* conn.send(cmd(topic, msg)) inside try/except: when send raises, the
\* exception is logged and conn.close() is called; the close event follows.
SendOn(st, c, p, fail) ==
    IF fail
    THEN [st EXCEPT !.pubs[p].fail = TRUE, !.cs[c] = "closing"]
    ELSE st

RECURSIVE DoPub(_, _, _, _, _), Invoke(_, _, _, _, _, _)

\* A _pub that returns on an empty pool without invoking the callback.
NoConnectionsSilent(st, pool, p, ch) == st

\* if not self.conns: callback(None, nsq.SendError('no connections')); return
NoConnections(st, pool, p, ch) == Invoke(st, pool, p, None, "noconn", ch)

\* callback(conn, data): the invocation is recorded, the callback's body
\* runs, and the record tells whether it raised.
Invoke(st, pool, p, c, data, ch) ==
    LET n == Len(st.calls[c]) + 1
        s1 == [st EXCEPT !.calls[c] =
                  Append(@, [pub |-> p, data |-> data, raised |-> FALSE])]
        k == st.pubs[p].kind
        s2 == CASE k = "returns" -> s1
                [] k = "raises" -> [s1 EXCEPT !.exc = TRUE]
                [] k = "default" -> FinishPub(s1, c, data)
                [] k = "republishes" ->
                      IF IsError(data) THEN DoPub(s1, pool, "default", p, ch) ELSE s1
    IN  [s2 EXCEPT !.calls[c][n].raised = s2.exc]

\* Writer._pub(command, topic, msg, callback) with a callback of kind k,
\* called by the callback of publish `parent` or by the Writer's caller;
\* ch is the outcome of random.choice and of conn.send.
DoPub(st, pool, k, parent, ch) ==
    IF st.npub >= MaxPubs THEN [st EXCEPT !.over = TRUE]
    ELSE
    LET p == st.npub + 1
        s1 == [st EXCEPT !.npub = p,
                         !.pubs[p] = [kind |-> k, conn |-> None, fail |-> FALSE,
                                      parent |-> parent]]
    IN  IF Members(pool) = {}
        THEN NoConnections(s1, pool, p, ch)
        ELSE LET c == ch.conn
                 s2 == [s1 EXCEPT !.pubs[p].conn = c,
                                  !.q[c] = Enqueue(@, p),
                                  !.sent[c] = Append(@, p)]
             IN  SendOn(s2, c, p, ch.fail)

\* _on_connection_response(conn, data): pops the oldest callback, if any,
\* and invokes it; an exception of the callback is not caught here.
OnResponse(st, pool, c, data, ch) ==
    IF st.q[c] # <<>>
    THEN Invoke([st EXCEPT !.q[c] = PopOldest(@)], pool, Oldest(st.q[c]), c, data, ch)
    ELSE st

\* heartbeat(conn): logging.info only.
OnHeartbeat(st, c) == st

\* A close handler whose loop invokes nothing.
DrainOneSkips(st, pool, p, c, ch) == st

\* A close handler without the try/except around the callback.
DrainOneUncaught(st, pool, p, c, ch) == Invoke(st, pool, p, c, "closed", ch)

\* try: callback(conn, nsq.ConnectionClosedError())
\* except Exception: logging.exception(...)
DrainOne(st, pool, p, c, ch) ==
    [Invoke(st, pool, p, c, "closed", ch) EXCEPT !.exc = FALSE]

\* for callback in conn.callback_queue: ..., from position i of the list
\* on; an exception that leaves the loop body ends the loop.
RECURSIVE Drain(_, _, _, _, _)
Drain(st, pool, c, i, chs) ==
    IF i > Len(st.q[c]) \/ st.exc \/ st.over THEN st
    ELSE Drain(DrainOne(st, pool, st.q[c][i], c, chs[i]), pool, c, i + 1, chs)

\* -------------------------------------------------- connection set-up
\* The part of the state that connect_to_nsqd can change; over: MaxConns
\* would be exceeded.
Net == [ nconn |-> nconn, cid |-> cid, cs |-> cstate, q |-> callback_queue,
         over |-> FALSE ]

\* A connect_to_nsqd without the `if conn.id in self.conns: return`.
ConnectToNsqdAlways(net, pool, host, port) ==
    IF net.nconn >= MaxConns THEN [net EXCEPT !.over = TRUE]
    ELSE LET c == net.nconn + 1
         IN  [net EXCEPT !.nconn = c,
                         !.cid[c] = ConnId(host, port),
                         !.cs[c] = "connecting",
                         !.q[c] = <<>>]

\* connect_to_nsqd(host, port): nothing when conn.id is in self.conns;
\* otherwise conn.connect() and conn.callback_queue = [].
ConnectToNsqd(net, pool, host, port) ==
    IF pool[ConnId(host, port)] # None THEN net
    ELSE IF net.nconn >= MaxConns THEN [net EXCEPT !.over = TRUE]
    ELSE LET c == net.nconn + 1
         IN  [net EXCEPT !.nconn = c,
                         !.cid[c] = ConnId(host, port),
                         !.cs[c] = "connecting",
                         !.q[c] = <<>>]

\* connect(): for addr in self.nsqd_tcp_addresses: connect_to_nsqd(...),
\* from position i of the list on.
RECURSIVE ConnectFrom(_, _, _, _)
ConnectFrom(net, pool, addrs, i) ==
    IF i > Len(addrs) THEN net
    ELSE ConnectFrom(ConnectToNsqd(net, pool, addrs[i][1], addrs[i][2]),
                     pool, addrs, i + 1)

\* self.conns after `if conn.id in self.conns: del self.conns[conn.id]`
RemoveFromPool(pool, c) ==
    IF pool[cid[c]] # None THEN [pool EXCEPT ![cid[c]] = None] ELSE pool

\* A close handler that drains before it deletes the pool entry: the
\* drained callbacks see the pool with the closing connection in it.
PoolInDrainStale(pool, c) == pool

\* self.conns as the drained callbacks see it: the for loop comes after the
\* `del self.conns[conn.id]`.
PoolInDrain(pool, c) == RemoveFromPool(pool, c)

\* self.conns after _on_connection_ready(conn)
RegisterReady(pool, c) ==
    IF pool[cid[c]] # None THEN pool ELSE [pool EXCEPT ![cid[c]] = c]

\* IOLoop.add_callback(reconnect_callback): no delay.
ScheduleReconnectNow(ts, c) ==
    Append(ts, [id |-> cid[c], remaining |-> 0, conn |-> c])

\* A close handler with a retry limit of one: the close of a connection
\* that a reconnect attempt created schedules nothing.
ScheduleReconnectOnce(ts, c) ==
    IF c > Len(nsqd_tcp_addresses) THEN ts
    ELSE Append(ts, [id |-> cid[c], remaining |-> ReconnectDelay, conn |-> c])

\* A close handler that schedules the reconnect only for a connection that
\* had emitted ready.
ScheduleReconnectIfReady(ts, c) ==
    IF ready[c] = "none" THEN ts
    ELSE Append(ts, [id |-> cid[c], remaining |-> ReconnectDelay, conn |-> c])

\* IOLoop.add_timeout(time.time() + 15, reconnect_callback)
ScheduleReconnect(ts, c) ==
    Append(ts, [id |-> cid[c], remaining |-> ReconnectDelay, conn |-> c])

\* A sequence without its i-th element.
RemoveAt(seq, i) == SubSeq(seq, 1, i - 1) \o SubSeq(seq, i + 1, Len(seq))

\* --------------------------------------------------------------- Init
\* The id of a connection object that does not exist yet.
NoId == <<"", 0>>

NoPub == [kind |-> "unused", conn |-> None, fail |-> FALSE, parent |-> None]

Init ==
    /\ nsqd_tcp_addresses \in Configs
    /\ started = FALSE
    /\ conns = [e \in Endpoints |-> None]
    /\ nconn = 0
    /\ cid = [c \in Conns |-> NoId]
    /\ cstate = [c \in Conns |-> "unborn"]
    /\ ready = [c \in Conns |-> "none"]
    /\ callback_queue = [c \in Conns |-> <<>>]
    /\ timers = <<>>
    /\ npub = 0
    /\ pubs = [p \in Pubs |-> NoPub]
    /\ sent = [c \in Conns |-> <<>>]
    /\ calls = [c \in Conns \cup {None} |-> <<>>]
    /\ uncaught = {}
    /\ removed = [c \in Conns |-> <<>>]

\* ----------------------------------------------- connection lifecycle
\* What a connection can emit: at most one ready, after it only response,
\* error and heartbeat events, and at the end exactly one close; a
\* connection on which close() was called emits nothing but its close.
CanReady(c) == cstate[c] = "connecting"
CanFrame(c) == cstate[c] = "open"
CanClose(c) == cstate[c] \in {"connecting", "open", "closing"}

\* ------------------------------------------------------------ actions
SetStore(st) ==
    /\ callback_queue' = st.q
    /\ cstate' = st.cs
    /\ sent' = st.sent
    /\ npub' = st.npub
    /\ pubs' = st.pubs
    /\ calls' = st.calls

SetNet(net) ==
    /\ nconn' = net.nconn
    /\ cid' = net.cid
    /\ cstate' = net.cs
    /\ callback_queue' = net.q

\* _run(): the IOLoop callback added by __init__ calls connect().
Run ==
    /\ ~started
    /\ LET net == ConnectFrom(Net, conns, nsqd_tcp_addresses, 1)
       IN  ~net.over /\ SetNet(net)
    /\ started' = TRUE
    /\ UNCHANGED <<nsqd_tcp_addresses, conns, ready, timers, npub, pubs, sent,
                   calls, uncaught, removed>>

\* The number of times publish p's callback has been invoked.
Count(p) ==
    LET hits(c) == Cardinality({i \in DOMAIN calls[c] : calls[c][i].pub = p})
        RECURSIVE sum(_)
        sum(c) == IF c < None THEN 0 ELSE hits(c) + sum(c - 1)
    IN  sum(MaxConns)

\* MaxPubs bounds the _pub calls of a behaviour.  A callback that
\* republishes makes one more _pub call when it is invoked with an Error, so
\* a publish is accepted only while every such call still fits the bound.
Reserved ==
    Cardinality({p \in 1..npub : pubs[p].kind = "republishes" /\ Count(p) = 0})

Needed(k) == IF k = "republishes" THEN 2 ELSE 1

\* pub(topic, msg, callback) and mpub(topic, msg, callback): both end in
\* _pub(command, topic, msg, callback).
Publish(command, k) ==
    \E ch \in Choices(conns) :
        LET st == DoPub(Store, conns, k, None, ch)
        IN  /\ npub + Reserved + Needed(k) <= MaxPubs
            /\ ~st.over
            /\ SetStore(st)
            /\ uncaught' = IF st.exc THEN uncaught \cup {npub + 1} ELSE uncaught
            /\ UNCHANGED <<nsqd_tcp_addresses, started, conns, nconn, cid,
                           ready, timers, removed>>

\* The 'ready' event of connection c: _on_connection_ready(conn).
Ready(c) ==
    /\ CanReady(c)
    /\ conns' = RegisterReady(conns, c)
    /\ cstate' = [cstate EXCEPT ![c] = IF conns[cid[c]] # None THEN "closing" ELSE "open"]
    /\ ready' = [ready EXCEPT ![c] = IF conns[cid[c]] # None THEN "rejected" ELSE "registered"]
    /\ UNCHANGED <<nsqd_tcp_addresses, started, nconn, cid, callback_queue,
                   timers, npub, pubs, sent, calls, uncaught, removed>>

\* A 'response' or 'error' event of connection c:
\* _on_connection_response(conn, data).
Frame(c, data) ==
    /\ CanFrame(c)
    /\ \E ch \in Choices(conns) :
        LET st == OnResponse(Store, conns, c, data, ch)
        IN  /\ ~st.over
            /\ SetStore(st)
            /\ uncaught' = IF st.exc THEN uncaught \cup {Oldest(callback_queue[c])}
                           ELSE uncaught
    /\ UNCHANGED <<nsqd_tcp_addresses, started, conns, nconn, cid, ready,
                   timers, removed>>

\* The 'heartbeat' event of connection c: heartbeat(conn) logs.
Heartbeat(c) ==
    /\ CanFrame(c)
    /\ SetStore(OnHeartbeat(Store, c))
    /\ UNCHANGED <<nsqd_tcp_addresses, started, conns, nconn, cid, ready,
                   timers, uncaught, removed>>

\* The outcomes of the nested publishes of a drain: one per queue position,
\* fixed where the callback at that position does not publish.
DrainChoices(pool, c) ==
    { chs \in [1..Len(callback_queue[c]) -> Choices(pool)] :
        \A i \in 1..Len(callback_queue[c]) :
            pubs[callback_queue[c][i]].kind # "republishes"
                => chs[i] = CHOOSE x \in Choices(pool) : TRUE }

\* The 'close' event of connection c: _on_connection_close(conn).
Close(c) ==
    /\ CanClose(c)
    /\ LET pool == RemoveFromPool(conns, c)
       IN  /\ conns' = pool
           /\ removed' = IF conns' # conns
                         THEN [removed EXCEPT ![conns[cid[c]]] = Append(@, c)]
                         ELSE removed
           /\ \E chs \in DrainChoices(PoolInDrain(conns, c), c) :
                LET st == Drain(Store, PoolInDrain(conns, c), c, 1, chs)
                IN  /\ ~st.over
                    /\ SetStore([st EXCEPT !.cs[c] = "closed"])
                    /\ uncaught' = IF st.exc
                                   THEN uncaught \cup {st.calls[c][Len(st.calls[c])].pub}
                                   ELSE uncaught
    /\ timers' = ScheduleReconnect(timers, c)
    /\ UNCHANGED <<nsqd_tcp_addresses, started, nconn, cid, ready>>

\* Time passes: every pending timeout comes TickStep seconds closer.
Tick ==
    /\ \E i \in 1..Len(timers) : timers[i].remaining > 0
    /\ timers' = [i \in 1..Len(timers) |->
                    [timers[i] EXCEPT !.remaining =
                        IF @ > TickStep THEN @ - TickStep ELSE 0]]
    /\ UNCHANGED <<nsqd_tcp_addresses, started, conns, nconn, cid, cstate,
                   ready, callback_queue, npub, pubs, sent, calls, uncaught, removed>>

\* A reconnect registered as a periodic callback: it runs when due and
\* stays registered.
ReconnectRepeats(i) ==
    /\ i \in 1..Len(timers)
    /\ timers[i].remaining = 0
    /\ LET net == ConnectToNsqd(Net, conns, timers[i].id[1], timers[i].id[2])
       IN  ~net.over /\ SetNet(net)
    /\ UNCHANGED <<nsqd_tcp_addresses, started, conns, ready, timers, npub,
                   pubs, sent, calls, uncaught, removed>>

\* The IOLoop runs a due timeout: reconnect_callback, that is
\* connect_to_nsqd(host=conn.host, port=conn.port).
Reconnect(i) ==
    /\ i \in 1..Len(timers)
    /\ timers[i].remaining = 0
    /\ LET net == ConnectToNsqd(Net, conns, timers[i].id[1], timers[i].id[2])
       IN  ~net.over /\ SetNet(net)
    /\ timers' = RemoveAt(timers, i)
    /\ UNCHANGED <<nsqd_tcp_addresses, started, conns, ready, npub, pubs,
                   sent, calls, uncaught, removed>>

Next ==
    \/ Run
    \/ \E command \in Commands, k \in CallbackKinds : Publish(command, k)
    \/ \E c \in Conns : Ready(c)
    \/ \E c \in Conns, data \in {"response", "error"} : Frame(c, data)
    \/ \E c \in Conns : Heartbeat(c)
    \/ \E c \in Conns : Close(c)
    \/ Tick
    \/ \E i \in 1..MaxConns : Reconnect(i)

Spec == Init /\ [][Next]_vars

\* The assumption of the liveness claims: a connection with a pending
\* callback eventually delivers a response/error frame or emits close.
Resolve(c) ==
    /\ callback_queue[c] # <<>>
    /\ cstate[c] \in {"open", "closing"}
    /\ \/ \E data \in {"response", "error"} : Frame(c, data)
       \/ Close(c)

\* The scenario of two configured endpoints, A and B.
LiveInit == Init /\ nsqd_tcp_addresses = << <<"A", 4150>>, <<"B", 4150>> >>

LiveSpec == LiveInit /\ [][Next]_vars /\ \A c \in Conns : WF_vars(Resolve(c))

\* The IOLoop runs the timeout that the close of connection c created.
ReconnectOf(c) ==
    \E i \in 1..Len(timers) : timers[i].conn = c /\ Reconnect(i)

\* The assumptions of the reconnection claim: the IOLoop runs its callbacks
\* and every due timeout, time passes, and a connection attempt that is not
\* closed reaches ready.
RetrySpec ==
    /\ Init /\ [][Next]_vars
    /\ WF_vars(Run) /\ WF_vars(Tick)
    /\ \A c \in Conns : WF_vars(ReconnectOf(c)) /\ WF_vars(Ready(c))

\* ------------------------------------------------------------- helpers
Range(seq) == { seq[i] : i \in DOMAIN seq }

PubsOf(records) == [i \in DOMAIN records |-> records[i].pub]

\* The invocations on connection c made by response/error frames, and
\* those made by the drain of its close handling.
IsFrameCall(r) == r.data \in {"response", "error"}
IsClosedCall(r) == r.data = "closed"
FrameCalls(c) == SelectSeq(calls[c], IsFrameCall)
ClosedCalls(c) == SelectSeq(calls[c], IsClosedCall)

\* The publishes that exist.
Issued == 1..npub

\* ------------------------------------------------------------------ C1
\* C1: the callback of every publish/multiPublish call is invoked at most
\* once, whichever path resolves it (the synchronous no-connections path, a
\* response/error frame, or the drain of a close).
C1_AtMostOnce == \A p \in Issued : Count(p) <= 1

\* A closed connection on which one publish was resolved by a frame and a
\* later one by the drain of the close.
C1_Witness ==
    \E c \in Conns :
        /\ cstate[c] = "closed"
        /\ FrameCalls(c) # <<>>
        /\ ClosedCalls(c) # <<>>

\* ------------------------------------------------------------------ C2
AllResolved == \A p \in Issued : Count(p) >= 1

\* The number of invocations made with a connection to the given host.
RECURSIVE ViaFrom(_, _)
ViaFrom(host, c) ==
    IF c > MaxConns THEN 0
    ELSE (IF cstate[c] # "unborn" /\ cid[c][1] = host THEN Len(calls[c]) ELSE 0)
         + ViaFrom(host, c + 1)
Via(host) == ViaFrom(host, 1)

\* C2: provided every connection with a pending callback eventually
\* delivers a response/error frame or emits close, the callback of every
\* publish is eventually invoked; with the endpoints A and B, once all N
\* publishes are resolved the invocations through A plus those through B
\* (plus the synchronous ones with no connection) total exactly N.
C2_EveryCallbackFires ==
    /\ \A p \in Pubs : (npub >= p) ~> (Count(p) >= 1)
    /\ [](AllResolved => Via("A") + Via("B") + Len(calls[None]) = npub)

\* Both publishes were dispatched and resolved, one through A and one
\* through B.
C2_Witness ==
    /\ npub = MaxPubs
    /\ AllResolved
    /\ calls[None] = <<>>
    /\ Via("A") >= 1
    /\ Via("B") >= 1

\* ------------------------------------------------------------------ C3
\* The record of the synchronous no-connections invocation of publish p.
HasNoConnCall(cs, p) ==
    \E i \in DOMAIN cs[None] : cs[None][i].pub = p /\ cs[None][i].data = "noconn"

\* A step in which _pub ran while the pool was empty: each such call has
\* invoked its callback with (None, no-connections error) before the step
\* ends, no queue has grown and nothing was handed to any connection's send.
NoConnStep ==
    (npub' > npub /\ Members(conns') = {}) =>
        /\ \A p \in (npub + 1)..npub' :
              /\ HasNoConnCall(calls', p)
              /\ pubs'[p].conn = None
        /\ \A c \in Conns :
              /\ sent'[c] = sent[c]
              /\ Len(callback_queue'[c]) <= Len(callback_queue[c])

\* A publish that failed with the no-connections error is never queued on,
\* nor sent to, a connection afterwards.
NeverDispatchedLater ==
    \A p \in Issued :
        HasNoConnCall(calls, p) =>
            \A c \in Conns : p \notin Range(sent[c]) /\ p \notin Range(callback_queue[c])

\* C3: with zero ready connections publish/multiPublish invokes its
\* callback synchronously with a null connection and a no-connections
\* error, appends to no callback queue, sends nothing, and the request is
\* never dispatched later when a connection becomes ready.
C3_NoConnections == [][NoConnStep]_vars /\ []NeverDispatchedLater

\* A publish failed synchronously, and a connection is in the pool now.
C3_Witness ==
    \E p \in Issued :
        /\ HasNoConnCall(calls, p)
        /\ Members(conns) # {}
        /\ Count(p) = 1

\* ------------------------------------------------------------------ C4
\* C4: on every connection the k-th callback invoked by a response/error
\* frame is the callback of the k-th command sent on that connection
\* (frames that find the queue empty invoke nothing).
C4_PerConnectionFifo ==
    \A c \in Conns :
        /\ Len(FrameCalls(c)) <= Len(sent[c])
        /\ \A k \in 1..Len(FrameCalls(c)) : FrameCalls(c)[k].pub = sent[c][k]

\* Two publishes on one connection, both resolved by frames.
C4_Witness == \E c \in Conns : Len(FrameCalls(c)) >= 2

\* ------------------------------------------------------------------ C5
\* C5: once a connection's close has been handled, every callback that was
\* still queued on it has been invoked exactly once, with a
\* ConnectionClosedError, in enqueue order and after the frame-resolved
\* ones, also when an earlier callback raised; no exception left the
\* handler; the connection is no pool member and was removed from the pool
\* at most once.
C5_CloseDrain ==
    \A c \in Conns :
        /\ Len(removed[c]) <= 1
        /\ cstate[c] = "closed" =>
              /\ PubsOf(calls[c]) = sent[c]
              /\ calls[c] = FrameCalls(c) \o ClosedCalls(c)
              /\ \A p \in Range(sent[c]) : Count(p) = 1
              /\ \A p \in Range(PubsOf(ClosedCalls(c))) : p \notin uncaught
              /\ c \notin Members(conns)

\* A closed connection that had two callbacks queued, the first of which
\* raised while being drained.
C5_Witness ==
    \E c \in Conns :
        /\ cstate[c] = "closed"
        /\ Len(ClosedCalls(c)) >= 2
        /\ ClosedCalls(c)[1].raised
        /\ removed[c] = <<c>>

\* ------------------------------------------------------------------ C6
\* C6: when two connection attempts to one endpoint both reach readiness,
\* the first stays the pool member for the endpoint, also after the close
\* of the rejected second one has been handled; the second is closed and
\* is never sent a command.
C6_FirstRetained ==
    \A c, d \in Conns :
        ( /\ cstate[c] # "unborn" /\ cstate[d] # "unborn"
          /\ cid[c] = cid[d]
          /\ ready[c] = "registered" /\ cstate[c] = "open"
          /\ ready[d] = "rejected" )
        => /\ conns[cid[c]] = c
           /\ cstate[d] \in {"closing", "closed"}
           /\ sent[d] = <<>>

\* ------------------------------------------------------------------ C7
\* The publishes whose send raises in the step, and their connections.
NewFailed == { p \in (npub + 1)..npub' : pubs'[p].fail }
NewFailedConns == { pubs'[p].conn : p \in NewFailed }

\* A step in which conn.send raised for a publish: no callback of that
\* publish is invoked in the step, the publish stays queued on its
\* connection X, X is closed by the pool, and the pool closes no other
\* connection; when the step is the publish call itself, no callback at all
\* is invoked and no other connection's queue or state changes.
SendFailureStep ==
    /\ \A p \in NewFailed :
          /\ \A c \in Conns \cup {None} : p \notin Range(PubsOf(calls'[c]))
          /\ p \in Range(callback_queue'[pubs'[p].conn])
          /\ cstate'[pubs'[p].conn] = "closing"
    /\ \A c \in Conns \ NewFailedConns :
          (cstate'[c] = "closing" /\ ready'[c] = ready[c]) => cstate[c] = "closing"
    /\ (\E p \in NewFailed : pubs'[p].parent = None) =>
          /\ calls' = calls
          /\ uncaught' = uncaught
          /\ conns' = conns
          /\ \A c \in Conns \ NewFailedConns :
                callback_queue'[c] = callback_queue[c] /\ cstate'[c] = cstate[c]

\* A publish whose send raised is resolved by the close handling of its
\* connection, exactly once and with a ConnectionClosedError, and no
\* exception of it reaches the caller of publish.
SendFailureResolved ==
    \A p \in Issued :
        pubs[p].fail =>
            LET x == pubs[p].conn
            IN  /\ cstate[x] \in {"closing", "closed"}
                /\ cstate[x] = "closing" =>
                      Count(p) = 0 /\ p \in Range(callback_queue[x])
                /\ cstate[x] = "closed" =>
                      /\ Count(p) = 1
                      /\ \E i \in DOMAIN calls[x] :
                            calls[x][i].pub = p /\ calls[x][i].data = "closed"
                /\ p \notin uncaught

\* C7: when conn.send raises in publish/multiPublish on connection X, the
\* exception does not reach the caller, the call itself does not invoke the
\* callback, X is closed, the callback is resolved exactly once with a
\* closed-connection error by X's close handling, and no other connection
\* is closed or has its queue changed.
C7_SendFailure == [][SendFailureStep]_vars /\ []SendFailureResolved

\* A publish whose send raised has been resolved by the close of its
\* connection while another connection is still open with a callback queued.
C7_Witness ==
    \E p \in Issued, c \in Conns :
        /\ pubs[p].fail
        /\ cstate[pubs[p].conn] = "closed"
        /\ Count(p) = 1
        /\ c # pubs[p].conn
        /\ cstate[c] = "open"
        /\ callback_queue[c] # <<>>

\* ------------------------------------------------------------------ C8
\* C8: the default callback installed when the callback is omitted only
\* logs: on every resolution path, the synchronous no-connections path
\* included, it completes normally and the publish call does not raise.
C8_DefaultCallbackReturns ==
    \A p \in Issued :
        pubs[p].kind = "default" =>
            /\ p \notin uncaught
            /\ \A c \in Conns \cup {None} :
                  \A i \in DOMAIN calls[c] : calls[c][i].pub = p => ~calls[c][i].raised

\* ------------------------------------------------------------------ C9
\* C9: an exception raised by a caller-supplied callback is caught by the
\* pool wherever the pool invokes callbacks (the no-connections path of
\* publish, response/error frame handling, close draining): it never leaves
\* publish/multiPublish or an event handler of the pool.
C9_CallbackExceptionsCaught ==
    \A p \in Issued : pubs[p].kind = "raises" => p \notin uncaught

\* ----------------------------------------------------------------- C10
\* The connections whose close event is handled in the step.
ClosedNow == { c \in Conns : cstate[c] # "closed" /\ cstate'[c] = "closed" }

\* A step that handles a close event appends exactly one timeout, for the
\* closed connection's id and due after ReconnectDelay, and starts no
\* connection; no other step adds a timeout; a connection is started by a
\* timeout only when the timeout is due, for the timeout's id.
ReconnectStep ==
    /\ \A c \in ClosedNow :
          /\ timers' = Append(timers, [id |-> cid[c], remaining |-> ReconnectDelay,
                                       conn |-> c])
          /\ nconn' = nconn
    /\ ClosedNow = {} => Len(timers') <= Len(timers)
    /\ (started /\ nconn' # nconn) =>
          \E i \in DOMAIN timers :
              /\ timers[i].remaining = 0
              /\ timers' = RemoveAt(timers, i)
              /\ nconn' = nconn + 1
              /\ cid'[nconn'] = timers[i].id

\* C10: every close event schedules exactly one reconnect attempt to the
\* id (host, port) of the closed connection, after the fixed delay, and the
\* attempt does not run inside the close handling.
C10_OneReconnectPerClose == [][ReconnectStep]_vars

\* A connection closed, the delay elapsed and the reconnect attempt started
\* a new connection to the same endpoint.
C10_Witness ==
    \E c, d \in Conns :
        /\ c < d
        /\ cstate[c] = "closed"
        /\ cstate[d] = "connecting"
        /\ cid[d] = cid[c]
        /\ d > Len(nsqd_tcp_addresses)
        /\ timers = <<>>

\* ----------------------------------------------------------------- C11
\* C11: reconnection applies only to previously-ready connections: a step
\* that handles the close of a connection that never emitted ready adds no
\* reconnect timeout.
C11_NoReconnectUnlessReady ==
    [][\A c \in ClosedNow : ready[c] = "none" => timers' = timers]_vars

\* A step in which a publish failed with the no-connections error and no
\* close was handled: nothing is scheduled and no connection is started.
NoConnNotRetried ==
    (ClosedNow = {} /\ \E p \in (npub + 1)..npub' : HasNoConnCall(calls', p)) =>
        timers' = timers /\ nconn' = nconn

\* C11 as amended: reconnection applies to every connection that closes,
\* previously ready or not: the close of a connection that never emitted
\* ready schedules exactly one reconnect attempt to its endpoint, due after
\* ReconnectDelay; a no-connections failure of a publish schedules nothing.
C11_ReconnectAlsoWhenNeverReady ==
    [][ /\ \A c \in ClosedNow :
              ready[c] = "none" =>
                  timers' = Append(timers, [id |-> cid[c],
                                            remaining |-> ReconnectDelay,
                                            conn |-> c])
        /\ NoConnNotRetried ]_vars

\* The only connection so far closed without ever emitting ready; its
\* reconnect timeout is pending and a publish has failed synchronously.
C11_Witness ==
    /\ nconn = 1
    /\ cstate[1] = "closed"
    /\ ready[1] = "none"
    /\ Len(timers) = 1
    /\ timers[1].id = cid[1]
    /\ calls[None] # <<>>

\* ----------------------------------------------------------------- C12
\* The connections to endpoint identity e that are connecting or connected.
Live(e) == { c \in Conns : cid[c] = e /\ cstate[c] \in {"connecting", "open"} }

\* C12: at any time at most one connection per endpoint identity is
\* connecting or connected; a duplicate entry of the endpoint configuration
\* never causes a second concurrent connection attempt to the endpoint.
C12_OneConnectionPerEndpoint == \A e \in Endpoints : Cardinality(Live(e)) <= 1

\* ----------------------------------------------------------------- C13
\* C13: a connection registered in the pool stays the pool member for its
\* endpoint until its own close event is handled; a pool entry holds a
\* connection that was registered by its ready event; an entry is deleted
\* only by the close of the connection it holds, never by the close of
\* another connection object with the same identity.
C13_MemberUntilOwnClose ==
    \A c \in Conns :
        /\ (ready[c] = "registered" /\ cstate[c] # "closed") => conns[cid[c]] = c
        /\ c \in Members(conns) => ready[c] = "registered"
        /\ Range(removed[c]) \subseteq {c}

\* ----------------------------------------------------------------- C14
\* The reconnect timeout that the close of connection c created is pending.
Pending(c) == \E i \in DOMAIN timers : timers[i].conn = c

InPool(e) == conns[e] # None

\* MaxConns is reached while a reconnect timeout for endpoint e is pending.
Blocked(e) == nconn >= MaxConns /\ \E i \in DOMAIN timers : timers[i].id = e

\* A step that handles the close of a connection leaves the connection's
\* reconnect timeout pending; a step that consumes a timeout either finds
\* the timeout's endpoint in the pool and starts nothing, or starts one
\* connection to that endpoint.
AttemptStep ==
    /\ \A c \in ClosedNow : \E i \in DOMAIN timers' : timers'[i].conn = c
    /\ Len(timers') < Len(timers) =>
          \E i \in DOMAIN timers :
              /\ timers' = RemoveAt(timers, i)
              /\ \/ InPool(timers[i].id) /\ nconn' = nconn
                 \/ /\ ~InPool(timers[i].id)
                    /\ nconn' = nconn + 1
                    /\ cid'[nconn'] = timers[i].id
                    /\ cstate'[nconn'] = "connecting"

\* No close event of a connection to endpoint e is handled in the step.
NoCloseOf(e) == \A c \in ClosedNow : cid[c] # e

\* C14: with the reconnect timer running, the close of every connection is
\* eventually followed by the reconnect attempt it scheduled, which starts
\* a connection to the same endpoint or finds the endpoint in the pool, as
\* often as closes repeat (up to MaxConns connections); and when from some
\* point on no connection to a configured endpoint closes, the endpoint is
\* a pool member from some point on.
C14_RetriesForever ==
    /\ [][AttemptStep]_vars
    /\ \A c \in Conns :
          (cstate[c] = "closed") ~> (~Pending(c) \/ nconn >= MaxConns)
    /\ \A e \in Endpoints :
          <>[][NoCloseOf(e)]_vars =>
              <>[](e \notin Range(nsqd_tcp_addresses) \/ InPool(e) \/ Blocked(e))

\* Two connections to one endpoint closed one after the other, each close
\* was followed by its reconnect attempt, and the third connection is the
\* pool member.
C14_Witness ==
    \E e \in Endpoints :
        /\ nconn = 3
        /\ \A c \in 1..3 : cid[c] = e
        /\ cstate[1] = "closed" /\ cstate[2] = "closed"
        /\ timers = <<>>
        /\ conns[e] = 3

\* ----------------------------------------------------------------- C15
\* C15: once the close event of a connection has been handled, its callback
\* queue holds no entries, so that no later event on the connection object
\* can invoke a callback that was already resolved.
C15_QueueEmptyAfterClose ==
    \A c \in Conns : cstate[c] = "closed" => callback_queue[c] = <<>>

\* ----------------------------------------------------------------- C16
\* The step is one publish/multiPublish call of the Writer's caller that
\* found the pool non-empty.
IsDispatch ==
    /\ npub' = npub + 1
    /\ pubs'[npub'].parent = None
    /\ pubs'[npub'].conn # None

\* Such a call chooses a pool member, appends the callback to the end of
\* its queue (also when send raises) and hands the command to its send; the
\* pool map, the other queues and what was sent to the others stay as they
\* were, and no callback is invoked.
DispatchStep ==
    IsDispatch =>
        LET p == npub'
            x == pubs'[p].conn
        IN  /\ x \in Members(conns)
            /\ conns' = conns
            /\ callback_queue'[x] = Append(callback_queue[x], p)
            /\ sent'[x] = Append(sent[x], p)
            /\ \A c \in Conns \ {x} :
                  callback_queue'[c] = callback_queue[c] /\ sent'[c] = sent[c]
            /\ calls' = calls

\* Whatever the step, a connection that is handed a command is a pool
\* member when the step ends, and gets the callback queued with it.
OnlyMembersSent ==
    \A c \in Conns :
        sent'[c] # sent[c] =>
            /\ c \in Members(conns')
            /\ \A p \in Range(sent'[c]) \ Range(sent[c]) :
                  pubs'[p].conn = c /\ p \in Range(callback_queue'[c])

\* Pool members are connections whose ready event registered them and
\* whose close event has not been handled; a connection that never was a
\* pool member was never sent a command.
MembersAreReady ==
    \A c \in Conns :
        /\ c \in Members(conns) =>
              ready[c] = "registered" /\ cstate[c] \in {"open", "closing"}
        /\ ready[c] # "registered" => sent[c] = <<>>

\* C16: publish/multiPublish on a non-empty pool selects a connection that
\* is a pool member at that moment (ready, close not handled), appends the
\* callback to its queue before send, and leaves the pool map and every
\* other connection's queue unchanged; a connection that is not, or is no
\* longer, a pool member is never chosen and never sent a command.
C16_DispatchToMember ==
    [][DispatchStep /\ OnlyMembersSent]_vars /\ []MembersAreReady

\* A publish was dispatched to a pool member while another connection, open
\* but not in the pool, exists; that one was sent nothing since it left.
C16_Witness ==
    \E p \in Issued, d \in Conns :
        /\ pubs[p].parent = None
        /\ pubs[p].conn \notin {None, d}
        /\ cstate[d] = "open"
        /\ d \notin Members(conns)
        /\ Members(conns) # {}
        /\ sent[d] = <<>>

\* ----------------------------------------------------------------- C17
\* The publishes made in the step that were dispatched to connection c, in
\* order: those of the callbacks that the step invokes included.
NewTo(c) ==
    SelectSeq([i \in 1..(npub' - npub) |-> npub + i],
              LAMBDA p : pubs'[p].conn = c)

\* The step invokes a callback on connection c with a frame's payload.
FrameInvokes(c) ==
    /\ Len(calls'[c]) > Len(calls[c])
    /\ IsFrameCall(calls'[c][Len(calls'[c])])

\* A step in which a response/error frame on c invokes a callback: it is
\* the one invocation of the step on a connection, of the head of c's
\* queue, exactly that head leaves c's queue, and the pool map and the other
\* queues are untouched (but for what the invoked callback publishes).  In
\* every other step no queue loses an entry.
FrameStep ==
    \A c \in Conns :
        IF FrameInvokes(c)
        THEN /\ cstate[c] = "open"
             /\ callback_queue[c] # <<>>
             /\ Len(calls'[c]) = Len(calls[c]) + 1
             /\ SubSeq(calls'[c], 1, Len(calls[c])) = calls[c]
             /\ calls'[c][Len(calls'[c])].pub = Head(callback_queue[c])
             /\ callback_queue'[c] = Tail(callback_queue[c]) \o NewTo(c)
             /\ conns' = conns
             /\ \A d \in Conns \ {c} :
                   /\ callback_queue'[d] = callback_queue[d] \o NewTo(d)
                   /\ calls'[d] = calls[d]
        ELSE (\A d \in Conns : ~FrameInvokes(d)) =>
                 callback_queue'[c] = callback_queue[c] \o NewTo(c)

\* A response/error frame on a connection whose queue is empty changes
\* nothing and raises nothing, whatever its payload.
EmptyFrameIgnored ==
    \A c \in Conns :
        (CanFrame(c) /\ callback_queue[c] = <<>>) =>
            \A data \in {"response", "error"}, ch \in Choices(conns) :
                OnResponse(Store, conns, c, data, ch) = Store

\* A heartbeat on a connection changes nothing and invokes nothing.
HeartbeatIgnored ==
    \A c \in Conns : CanFrame(c) => OnHeartbeat(Store, c) = Store

\* C17: a response/error frame on connection X removes exactly the head of
\* X's callback queue when it is non-empty and changes neither the pool map
\* nor another connection's queue; on an empty queue the frame is ignored
\* (no callback, no state change, no error); a heartbeat invokes no
\* callback and changes no pool or queue state.
C17_FrameEffect ==
    [][FrameStep]_vars /\ [](EmptyFrameIgnored /\ HeartbeatIgnored)

\* A frame resolved the first of two callbacks queued on a connection, the
\* second is still queued, and another open connection has an empty queue.
C17_Witness ==
    \E c, d \in Conns :
        /\ c # d
        /\ cstate[c] = "open" /\ cstate[d] = "open"
        /\ Len(sent[c]) = 2
        /\ Len(FrameCalls(c)) = 1
        /\ callback_queue[c] = <<sent[c][2]>>
        /\ callback_queue[d] = <<>>

\* ----------------------------------------------------------------- C18
\* connect_to_nsqd for an endpoint that is a pool member returns without
\* connecting: no connection object is started and no queue is touched.
AttemptOnMemberIsNoOp ==
    \A e \in Endpoints :
        InPool(e) => ConnectToNsqd(Net, conns, e[1], e[2]) = Net

\* A step that runs a reconnect timeout for an endpoint that is a pool
\* member only consumes the timeout: the pool map, the queues, the
\* invocations and the connection objects (those that can emit a ready or a
\* close event later) are what they were.
NoOpReconnectStep ==
    \A i \in DOMAIN timers :
        ( /\ Len(timers') < Len(timers)
          /\ timers' = RemoveAt(timers, i)
          /\ InPool(timers[i].id) )
        => UNCHANGED <<conns, callback_queue, nconn, cid, cstate, ready,
                       sent, calls, npub, pubs, removed>>

\* C18: a connection attempt, initial or reconnect, to an endpoint whose
\* identity is a pool member is a no-op: it initiates no connect, leaves
\* the pool map and all callback queues unchanged and brings no connection
\* into being that could emit ready or close later.
C18_AttemptOnMemberNoOp ==
    [][NoOpReconnectStep]_vars /\ []AttemptOnMemberIsNoOp

\* A connection closed, its reconnect timeout ran while the endpoint was a
\* pool member, and no connection was started beyond the initial ones.
C18_Witness ==
    \E c \in Conns :
        /\ cstate[c] = "closed"
        /\ timers = <<>>
        /\ nconn = Len(nsqd_tcp_addresses)
        /\ InPool(cid[c])
        /\ conns[cid[c]] # c

\* ----------------------------------------------------------------- C19
\* The publishes that the callbacks invoked in the step made.
Nested == { p \in (npub + 1)..npub' : pubs'[p].parent # None }

\* A step that handles the close of connection c: every publish that a
\* drained callback made went to a member of the pool without c, where it
\* is queued, or failed at once with the no-connections error; nothing was
\* added to c's queue or handed to c's send, c is out of the pool, and the
\* reconnect was only scheduled: no connection was started in the step.
CloseOrderStep ==
    \A c \in ClosedNow :
        /\ \A p \in Nested :
              /\ IsClosedCall(calls'[c][CHOOSE i \in DOMAIN calls'[c] :
                                            calls'[c][i].pub = pubs'[p].parent])
              /\ pubs'[p].conn # c
              /\ IF pubs'[p].conn = None
                 THEN Members(conns') = {} /\ HasNoConnCall(calls', p)
                 ELSE /\ pubs'[p].conn \in Members(conns')
                      /\ p \in Range(callback_queue'[pubs'[p].conn])
        /\ callback_queue'[c] = callback_queue[c]
        /\ sent'[c] = sent[c]
        /\ c \notin Members(conns')
        /\ nconn' = nconn

\* C19: in close handling the removal from the pool map precedes the drain
\* and the reconnect is scheduled after it: a publish issued from inside a
\* callback that is being drained with a closed-connection error is never
\* enqueued on the closing connection; it is dispatched to another pool
\* member or fails synchronously with the no-connections error.
C19_DrainAfterRemoval == [][CloseOrderStep]_vars

\* The close of a connection drained a callback that published again, and
\* the new publish is queued on another connection, which is in the pool.
C19_Witness ==
    \E p \in Issued, c \in Conns :
        /\ pubs[p].parent # None
        /\ pubs[pubs[p].parent].conn # None
        /\ cstate[pubs[pubs[p].parent].conn] = "closed"
        /\ pubs[p].parent \in
              Range(PubsOf(ClosedCalls(pubs[pubs[p].parent].conn)))
        /\ pubs[p].conn = c
        /\ c \in Members(conns)
        /\ p \in Range(callback_queue[c])

\* ----------------------------------------------------------------- C20
\* The number of entries for endpoint e in the configured list.
Entries(e) ==
    Cardinality({i \in DOMAIN nsqd_tcp_addresses : nsqd_tcp_addresses[i] = e})

\* The connections to e whose close has not been handled, and the pending
\* reconnect timeouts for e.
Unclosed(e) ==
    { c \in Conns : cid[c] = e /\ cstate[c] \in {"connecting", "open", "closing"} }
TimersFor(e) == { i \in DOMAIN timers : timers[i].id = e }

\* C20: with connect() run once, for every endpoint identity the number of
\* connections to it that are connecting or open (close not yet handled)
\* plus the number of pending reconnect timeouts for it never exceeds the
\* number of its entries in the configured list; without duplicate entries
\* that is at most one per endpoint.
C20_NoAmplification ==
    \A e \in Endpoints :
        Cardinality(Unclosed(e)) + Cardinality(TimersFor(e)) <= Entries(e)

\* An endpoint listed twice, after closes and a reconnect: a connection
\* that a reconnect started and a pending timeout make up its two.
C20_Witness ==
    \E e \in Endpoints :
        /\ Entries(e) = 2
        /\ nconn = 3
        /\ cid[3] = e
        /\ cstate[3] \in {"connecting", "open"}
        /\ Cardinality(TimersFor(e)) = 1
        /\ Cardinality(Unclosed(e)) = 1

====
